---------------------------- MODULE Spec2Model ----------------------------
(***************************************************************************)
(* Model of excel_colomn_extraction.py: the schema loader, the column      *)
(* extractor, the key-aligned merge engine and the asynchronous task       *)
(* runner.  Sheets are matrices of cell values (row 1 is the header), a    *)
(* Python dict is an insertion-ordered sequence of <<key, value>> pairs,   *)
(* and every operation is cut into steps at its loop iterations, so that   *)
(* cancel() of the controlling thread can fall between any two of them.    *)
(***************************************************************************)
EXTENDS Integers, Sequences, FiniteSets, TLC

(***************************************************************************)
(* Bounds of the model.                                                    *)
(***************************************************************************)
MaxRows == 2        \* data rows (below the header) of a generated sheet
MaxKey == 2         \* key values 1..MaxKey of a generated key column
TaskCheckpoints == 2 \* checkpoints of the operation a call runs
MaxTick == 50       \* current and total of a TaskProgress lie in -MaxTick..MaxTick
LongRows == 300     \* rows, the header included, of the sheet of a long extraction
MaxBatch == 2       \* paths chosen in one file dialog

(***************************************************************************)
(* Cell values: None, an int or a str, in one record shape so that any two *)
(* values can be compared.                                                 *)
(***************************************************************************)
None == [t |-> "none", i |-> 0, s |-> ""]
IntVal(n) == [t |-> "int", i |-> n, s |-> ""]
StrVal(x) == [t |-> "str", i |-> 0, s |-> x]

\* str(value) of Python for the three kinds of value
PyStr(v) == IF v.t = "int" THEN ToString(v.i) ELSE IF v.t = "str" THEN v.s ELSE "None"

\* The one-character prefix of a synthetic column name, U+5217 (the module
\* is ASCII, so the character is spelled by its code point).
SyntheticPrefix == "U+5217"

\* f"..{col_idx}" naming of a header cell (lines 200, 262, 386)
HeaderName(v, col_idx) == IF v # None THEN PyStr(v) ELSE SyntheticPrefix \o ToString(col_idx)

(***************************************************************************)
(* Python dicts, insertion ordered.                                        *)
(***************************************************************************)
DictKeys(d) == {d[n][1] : n \in 1..Len(d)}
Has(d, k) == k \in DictKeys(d)
Get(d, k) == d[CHOOSE n \in 1..Len(d) : d[n][1] = k][2]
Put(d, k, v) ==
    IF Has(d, k) THEN [n \in 1..Len(d) |-> IF d[n][1] = k THEN <<k, v>> ELSE d[n]]
    ELSE Append(d, <<k, v>>)
KeyList(d) == [n \in 1..Len(d) |-> d[n][1]]

ZeroBased(seq) == [k \in 0..(Len(seq) - 1) |-> seq[k + 1]]
Max(a, b) == IF a >= b THEN a ELSE b

(***************************************************************************)
(* Sheets.                                                                 *)
(***************************************************************************)
max_row(sheet) == Len(sheet)
max_column(sheet) == Len(sheet[1])

\* name -> column index of a header row: a later column of the same name
\* overwrites the index of an earlier one (lines 383-388)
RECURSIVE ColumnMapUpTo(_, _)
ColumnMapUpTo(sheet, n) ==
    IF n = 0 THEN <<>>
    ELSE Put(ColumnMapUpTo(sheet, n - 1), HeaderName(sheet[1][n], n), n)
ColumnMap(sheet) == ColumnMapUpTo(sheet, max_column(sheet))

\* key -> row of first occurrence over rows 2..r of one column (lines 415-423
\* and 460-466); the keys list of line 422 is the key order of this dict
RECURSIVE KeyToRowUpTo(_, _, _)
KeyToRowUpTo(sheet, col, r) ==
    IF r < 2 THEN <<>>
    ELSE LET prev == KeyToRowUpTo(sheet, col, r - 1)
             key_value == sheet[r][col]
         IN IF Has(prev, key_value) THEN prev ELSE Append(prev, <<key_value, r>>)
\* variant: a key kept at the row of its last occurrence
LastKeyToRow(sheet, col) ==
    LET RECURSIVE Last(_)
        Last(r) == IF r < 2 THEN <<>> ELSE Put(Last(r - 1), sheet[r][col], r)
    IN Last(max_row(sheet))
KeyToRow(sheet, col) == KeyToRowUpTo(sheet, col, max_row(sheet))

(***************************************************************************)
(* Step 4 of merge_multiple_files as functions of one file's inputs.       *)
(***************************************************************************)
NoRef == "<no reference column>"

\* the first selected name of the file that is a key of the reference map
\* (lines 442-449: the loop breaks at the first match)
DrivingReference(cols, refmap) ==
    LET hits == {n \in 1..Len(cols) : Has(refmap, cols[n][2])}
    IN IF hits = {} THEN NoRef
       ELSE cols[CHOOSE n \in hits : \A m \in hits : n <= m][2]

\* variants of the direct mapping: one that maps the header row as well, one
\* that starts at target row 3
HeaderIncludedMapping(sheet) ==
    [mapping |-> [n \in 1..max_row(sheet) |-> <<n, n>>],
     target_row |-> max_row(sheet) + 1]
ShiftedMapping(sheet) ==
    [mapping |-> [n \in 1..(max_row(sheet) - 1) |-> <<n + 1, n + 2>>],
     target_row |-> max_row(sheet) + 2]
\* rows 2..max_row onto themselves (lines 487-490 and 494-497)
DirectMapping(sheet) ==
    [mapping |-> [n \in 1..(max_row(sheet) - 1) |-> <<n + 1, n + 1>>],
     target_row |-> max_row(sheet) + 1]

\* lines 469-476: one target row per canonical key, starting at row 2,
\* taken by the file's first row of that key when it has one
RECURSIVE WalkReferenceKeys(_, _, _)
WalkReferenceKeys(ref_keys, file_key_to_row, n) ==
    IF n = 0 THEN <<>>
    ELSE LET prev == WalkReferenceKeys(ref_keys, file_key_to_row, n - 1)
             ref_key == ref_keys[n]
         IN IF Has(file_key_to_row, ref_key)
            THEN Put(prev, Get(file_key_to_row, ref_key), n + 1)
            ELSE prev

\* variant: every key of the file follows, known to the reference or not
RECURSIVE AppendEveryKey(_, _, _, _, _)
AppendEveryKey(walked, file_key_to_row, ref_key_to_row, first_target, n) ==
    IF n = 0 THEN [mapping |-> walked, target_row |-> first_target]
    ELSE LET prev == AppendEveryKey(walked, file_key_to_row, ref_key_to_row, first_target, n - 1)
         IN [mapping |-> Put(prev.mapping, file_key_to_row[n][2], prev.target_row),
             target_row |-> prev.target_row + 1]
\* lines 479-482: the file's own keys that the reference file lacks follow
RECURSIVE AppendOwnKeys(_, _, _, _, _)
AppendOwnKeys(walked, file_key_to_row, ref_key_to_row, first_target, n) ==
    IF n = 0 THEN [mapping |-> walked, target_row |-> first_target]
    ELSE LET prev == AppendOwnKeys(walked, file_key_to_row, ref_key_to_row, first_target, n - 1)
             file_key == file_key_to_row[n][1]
             file_row == file_key_to_row[n][2]
         IN IF ~Has(ref_key_to_row, file_key)
            THEN [mapping |-> Put(prev.mapping, file_row, prev.target_row),
                  target_row |-> prev.target_row + 1]
            ELSE prev

\* variant: target rows given only to the canonical keys the file has
CompactReferenceMapping(sheet, file_col_idx, ref_keys, ref_key_to_row) ==
    LET file_key_to_row == KeyToRow(sheet, file_col_idx)
        present == SelectSeq(ref_keys, LAMBDA k : Has(file_key_to_row, k))
        walked == WalkReferenceKeys(present, file_key_to_row, Len(present))
    IN AppendOwnKeys(walked, file_key_to_row, ref_key_to_row,
                     Len(present) + 2, Len(file_key_to_row))
\* variant: the file's own keys start on the row of the last canonical key
OverlappingReferenceMapping(sheet, file_col_idx, ref_keys, ref_key_to_row) ==
    LET file_key_to_row == KeyToRow(sheet, file_col_idx)
        walked == WalkReferenceKeys(ref_keys, file_key_to_row, Len(ref_keys))
    IN AppendOwnKeys(walked, file_key_to_row, ref_key_to_row,
                     Len(ref_keys) + 1, Len(file_key_to_row))
\* lines 459-484 for a file that has the driving reference column
ReferenceMapping(sheet, file_col_idx, ref_keys, ref_key_to_row) ==
    LET file_key_to_row == KeyToRow(sheet, file_col_idx)
        walked == WalkReferenceKeys(ref_keys, file_key_to_row, Len(ref_keys))
    IN AppendOwnKeys(walked, file_key_to_row, ref_key_to_row,
                     Len(ref_keys) + 2, Len(file_key_to_row))

\* sorted(columns_by_file.keys()) flattened: the (file, name) pairs in the
\* order the emit loops of lines 508-509 visit them
RECURSIVE EmitOrderUpTo(_, _)
EmitOrderUpTo(cbf, f) ==
    IF f < 0 THEN <<>>
    ELSE EmitOrderUpTo(cbf, f - 1) \o (IF Has(cbf, f) THEN Get(cbf, f) ELSE <<>>)
\* variant: the files in order of first appearance in the selection
SelectionOrder(cbf, n) ==
    LET RECURSIVE Flat(_)
        Flat(k) == IF k = 0 THEN <<>> ELSE Flat(k - 1) \o cbf[k][2]
    IN Flat(Len(cbf))
EmitOrder(cbf, n) == EmitOrderUpTo(cbf, n - 1)

\* lines 429-431: the selection grouped by file, files in order of first
\* appearance, each file's pairs in selection order
RECURSIVE GroupByFile(_, _)
GroupByFile(sel, n) ==
    IF n = 0 THEN <<>>
    ELSE LET prev == GroupByFile(sel, n - 1)
             f == sel[n][1]
         IN Put(prev, f, (IF Has(prev, f) THEN Get(prev, f) ELSE <<>>) \o <<sel[n]>>)

\* lines 260-264: the header names that are selected, with their index
RECURSIVE SelectedColumnMapUpTo(_, _, _)
SelectedColumnMapUpTo(sheet, selected, n) ==
    IF n = 0 THEN <<>>
    ELSE LET prev == SelectedColumnMapUpTo(sheet, selected, n - 1)
             col_name == HeaderName(sheet[1][n], n)
         IN IF \E k \in 1..Len(selected) : selected[k] = col_name
            THEN Put(prev, col_name, n)
            ELSE prev
SelectedColumnMap(sheet, selected) == SelectedColumnMapUpTo(sheet, selected, max_column(sheet))

\* variant: the value written as its text
SetCellAsText(sheet, row, column, value) ==
    [c \in (DOMAIN sheet) \cup {<<row, column>>} |->
        IF c = <<row, column>>
        THEN (IF value = None THEN None ELSE StrVal(PyStr(value)))
        ELSE sheet[c]]
\* sheet.cell(row, column).value = value
SetCell(sheet, row, column, value) ==
    [c \in (DOMAIN sheet) \cup {<<row, column>>} |->
        IF c = <<row, column>> THEN value ELSE sheet[c]]

\* line 314: a progress tick every 100 rows
ProgressInterval == 100

(***************************************************************************)
(* TaskProgress.percentage: min(100, int((current / total) * 100)).         *)
(***************************************************************************)
Abs(n) == IF n >= 0 THEN n ELSE -n
Min(a, b) == IF a <= b THEN a ELSE b

RECURSIVE GCD(_, _)
GCD(a, b) == IF b = 0 THEN a ELSE GCD(b, a % b)

\* The double current / total depends on the ratio only.  These are the
\* ratios in lowest terms, of numerator up to 61, for which the double
\* (current / total) * 100 falls just under the whole number that
\* current * 100 / total is: 29 / 50 is the double 0.58 and 0.58 * 100 is
\* 57.99999999999999.  For every other ratio the model forms, the double
\* truncates as the exact quotient does.
RoundsBelow ==
    { <<23, 5>>, <<23, 10>>, <<23, 20>>, <<29, 25>>, <<29, 50>>, <<29, 100>>,
      <<41, 5>>, <<41, 10>>, <<41, 20>>, <<46, 5>>, <<51, 5>>, <<51, 10>>, <<51, 20>>,
      <<57, 25>>, <<57, 50>>, <<57, 100>>, <<58, 25>> }

\* int((current / total) * 100) for total > 0: int() truncates toward zero
IntOfRatio(current, total) ==
    LET exact == (Abs(current) * 100) \div total
        g == GCD(Abs(current), total)
        lowest == <<Abs(current) \div g, total \div g>>
        magnitude == IF lowest \in RoundsBelow THEN exact - 1 ELSE exact
    IN IF current >= 0 THEN magnitude ELSE -magnitude

\* lines 42-47
percentage(current, total) ==
    IF total <= 0 THEN 0 ELSE Min(100, IntOfRatio(current, total))

(***************************************************************************)
(* State.                                                                  *)
(***************************************************************************)
VARIABLES
    op,                     \* the operation run: "load", "extract", "merge"
    files,                  \* file index -> the sheet stored at file_path
    sheet_name,             \* the sheet_name argument
    selected_columns,       \* extract_columns: the ordered names
    selected_cols_info,     \* merge: the ordered (file_index, name) pairs
    reference_column_map,   \* merge: name -> reference file index
    pc, i, j,               \* position of the operation and of its loops
    cancelled,              \* CancellationToken._cancelled
    cancel_before_save,     \* cancel() fell before the save step was reached
    source_workbooks,       \* the workbooks opened so far, in order
    open_handles,           \* the source workbooks that are open
    column_map,             \* extract_columns: name -> index
    column_maps,            \* merge: file -> name -> index
    reference_keys,         \* merge: name -> ordered distinct keys
    reference_key_to_row,   \* merge: name -> key -> first row
    columns_by_file,        \* merge: file -> its selected pairs
    row_mapping,            \* merge: file -> source row -> target row
    final_row_count,
    output_sheet,           \* <<row, column>> -> value of the output workbook
    output_col_idx,
    processed_cols,
    progress,               \* the (current, total) ticks given to progress_callback
    saved,                  \* what output_path holds
    file_info,              \* load_file_info: the ExcelFileInfo returned
    outcome,                \* "running", "returned", "cancelled" or the exception raised
    cancellation_token,     \* AsyncTaskExecutor.cancellation_token: the token of a call, or NoToken
    tokens,                 \* _cancelled of the CancellationToken each call creates
    threads,                \* the worker thread of each execute call
    after_queue,            \* root.after(0, ..): the event loop's callbacks, in order
    delivered,              \* per call, the callbacks run on the controlling thread
    task_progress,          \* ProgressDialog: the TaskProgress handed to update_progress
    progress_bar,           \* ProgressDialog: what progress_bar["value"] was set to
    file_infos,             \* MainUI.file_infos: the loaded files, in list order
    earlier_merge           \* what the merge made before this one was given and yielded

inputs == <<op, files, sheet_name, selected_columns, selected_cols_info, reference_column_map>>
token == <<cancelled, cancel_before_save>>
handles == <<source_workbooks, open_handles>>
keymaps == <<column_maps, reference_keys, reference_key_to_row>>
rowmaps == <<columns_by_file, row_mapping, final_row_count>>
output == <<output_sheet, output_col_idx, processed_cols>>
runner == <<cancellation_token, tokens, threads, after_queue, delivered>>
opvars == <<inputs, pc, i, j, token, handles, column_map, keymaps, rowmaps, output,
            progress, saved, file_info, outcome>>
ui == <<task_progress, progress_bar, file_infos, earlier_merge>>
vars == <<opvars, runner, ui>>

NoFile == [exists |-> FALSE, sheet |-> <<>>]
NoInfo == [sheet_name |-> "", columns |-> <<>>, total_rows |-> 0, file_index |-> 0]
SheetTitle == "Sheet1"
NumFiles == Cardinality(DOMAIN files)

\* raise inside the try block: the handler of lines 222-224, 338-340 and
\* 565-567 logs and re-raises, and closes nothing
Raise(kind) ==
    /\ pc' = "done"
    /\ outcome' = kind

\* CancellationToken.raise_if_cancelled
RaiseIfCancelled ==
    /\ cancelled
    /\ Raise("cancelled")

(***************************************************************************)
(* AsyncTaskExecutor.cancel -> CancellationToken.cancel, called by the     *)
(* controlling thread at any moment of the operation.                      *)
(***************************************************************************)
Cancel ==
    /\ op \in {"extract", "merge"}
    /\ pc # "done"
    /\ ~cancelled
    /\ cancelled' = TRUE
    /\ cancel_before_save' = (pc \notin {"save", "x_save"})
    /\ UNCHANGED <<runner, ui, inputs, pc, i, j, handles, column_map, keymaps, rowmaps, output,
                   progress, saved, file_info, outcome>>

(***************************************************************************)
(* ExcelAnalyzer.merge_multiple_files                                      *)
(***************************************************************************)
\* lines 370-373: open the next source file
MergeOpen ==
    /\ op = "merge" /\ pc = "open" /\ i < NumFiles
    /\ source_workbooks' = Append(source_workbooks, i)
    /\ open_handles' = open_handles \cup {i}
    /\ i' = i + 1
    /\ UNCHANGED <<runner, ui, inputs, pc, j, token, column_map, keymaps, rowmaps, output,
                   progress, saved, file_info, outcome>>

\* line 371: load_workbook raises (unreadable file)
MergeOpenFail ==
    /\ op = "merge" /\ pc = "open" /\ i < NumFiles
    /\ Raise("IOError")
    /\ UNCHANGED <<runner, ui, inputs, i, j, token, handles, column_map, keymaps, rowmaps, output,
                   progress, saved, file_info>>

\* lines 376-403: the output workbook and every file's name -> index map
MergeColumnMaps ==
    /\ op = "merge" /\ pc = "open" /\ i = NumFiles
    /\ column_maps' = [f \in DOMAIN files |-> ColumnMap(files[f])]
    /\ output_sheet' = <<>>
    /\ reference_keys' = <<>>
    /\ reference_key_to_row' = <<>>
    /\ pc' = "refkeys"
    /\ i' = 1
    /\ UNCHANGED <<runner, ui, inputs, j, token, handles, column_map, rowmaps, output_col_idx,
                   processed_cols, progress, saved, file_info, outcome>>

\* lines 409-426: one entry of the reference map
MergeReferenceKeys ==
    /\ op = "merge" /\ pc = "refkeys" /\ i <= Len(reference_column_map)
    /\ LET column_name == reference_column_map[i][1]
           ref_file_index == reference_column_map[i][2]
       IN IF ~Has(column_maps[ref_file_index], column_name)
          THEN UNCHANGED <<reference_keys, reference_key_to_row>>
          ELSE LET ref_col_idx == Get(column_maps[ref_file_index], column_name)
                   key_to_row == KeyToRow(files[ref_file_index], ref_col_idx)
               IN /\ reference_keys' = Put(reference_keys, column_name, KeyList(key_to_row))
                  /\ reference_key_to_row' = Put(reference_key_to_row, column_name, key_to_row)
    /\ i' = i + 1
    /\ UNCHANGED <<runner, ui, inputs, pc, j, token, handles, column_map, column_maps, rowmaps, output,
                   progress, saved, file_info, outcome>>

\* lines 429-436: group the selection by file
MergeGroup ==
    /\ op = "merge" /\ pc = "refkeys" /\ i > Len(reference_column_map)
    /\ columns_by_file' = GroupByFile(selected_cols_info, Len(selected_cols_info))
    /\ final_row_count' = 1
    /\ row_mapping' = <<>>
    /\ pc' = "rowmap"
    /\ i' = 1
    /\ UNCHANGED <<runner, ui, inputs, j, token, handles, column_map, keymaps, output,
                   progress, saved, file_info, outcome>>

\* lines 438-500: the row mapping of the next file of columns_by_file
MergeRowMapping ==
    /\ op = "merge" /\ pc = "rowmap" /\ i <= Len(columns_by_file)
    /\ LET file_index == columns_by_file[i][1]
           ref_column_name == DrivingReference(columns_by_file[i][2], reference_column_map)
           sheet == files[file_index]
           Fold(m) ==
               /\ row_mapping' = Put(row_mapping, file_index, m.mapping)
               /\ final_row_count' = Max(final_row_count, m.target_row)
               /\ i' = i + 1
               /\ UNCHANGED <<pc, outcome>>
       IN IF ref_column_name # NoRef
          THEN IF ~Has(reference_keys, ref_column_name)
               THEN \* line 454: KeyError, the reference file lacks the column
                    /\ Raise("KeyError")
                    /\ UNCHANGED <<row_mapping, final_row_count, i>>
               ELSE IF Has(column_maps[file_index], ref_column_name)
                    THEN Fold(ReferenceMapping(sheet,
                                  Get(column_maps[file_index], ref_column_name),
                                  Get(reference_keys, ref_column_name),
                                  Get(reference_key_to_row, ref_column_name)))
                    ELSE Fold(DirectMapping(sheet))
          ELSE Fold(DirectMapping(sheet))
    /\ UNCHANGED <<runner, ui, inputs, j, token, handles, column_map, keymaps, columns_by_file, output,
                   progress, saved, file_info>>

\* lines 503-505
MergeEmitStart ==
    /\ op = "merge" /\ pc = "rowmap" /\ i > Len(columns_by_file)
    /\ output_col_idx' = 1
    /\ processed_cols' = 0
    /\ pc' = "emit"
    /\ i' = 1
    /\ UNCHANGED <<runner, ui, inputs, j, token, handles, column_map, keymaps, rowmaps, output_sheet,
                   progress, saved, file_info, outcome>>

EmitPair == EmitOrder(columns_by_file, NumFiles)[i]

\* lines 510-526: the checkpoint of a column, then its header
MergeEmitColumn ==
    /\ op = "merge" /\ pc = "emit" /\ i <= Len(EmitOrder(columns_by_file, NumFiles))
    /\ \/ /\ RaiseIfCancelled
          /\ UNCHANGED <<i, j, output>>
       \/ /\ ~cancelled
          /\ processed_cols' = processed_cols + 1
          /\ LET file_index == EmitPair[1]
                 column_name == EmitPair[2]
             IN IF ~Has(column_maps[file_index], column_name)
                THEN /\ i' = i + 1
                     /\ UNCHANGED <<pc, j, output_sheet>>
                ELSE LET source_col_idx == Get(column_maps[file_index], column_name)
                     IN /\ output_sheet' = SetCell(output_sheet, 1, output_col_idx,
                                                   files[file_index][1][source_col_idx])
                        /\ pc' = "emit_rows"
                        /\ j' = 1
                        /\ UNCHANGED i
          /\ UNCHANGED <<output_col_idx, outcome>>
    /\ UNCHANGED <<runner, ui, inputs, token, handles, column_map, keymaps, rowmaps,
                   progress, saved, file_info>>

\* lines 529-537: the checkpoint of a row, then its cell
MergeEmitRow ==
    /\ op = "merge" /\ pc = "emit_rows"
    /\ LET file_index == EmitPair[1]
           file_row_map == Get(row_mapping, file_index)
           source_col_idx == Get(column_maps[file_index], EmitPair[2])
       IN /\ j <= Len(file_row_map)
          /\ \/ /\ RaiseIfCancelled
                /\ UNCHANGED <<j, output_sheet>>
             \/ /\ ~cancelled
                /\ output_sheet' = SetCell(output_sheet, file_row_map[j][2], output_col_idx,
                                           files[file_index][file_row_map[j][1]][source_col_idx])
                /\ j' = j + 1
                /\ UNCHANGED <<pc, outcome>>
    /\ UNCHANGED <<runner, ui, inputs, i, token, handles, column_map, keymaps, rowmaps,
                   output_col_idx, processed_cols, progress, saved, file_info>>

\* lines 545-551: the column's progress tick, then the next output column
MergeEmitColumnEnd ==
    /\ op = "merge" /\ pc = "emit_rows"
    /\ j > Len(Get(row_mapping, EmitPair[1]))
    /\ progress' = Append(progress, <<processed_cols, Len(selected_cols_info)>>)
    /\ output_col_idx' = output_col_idx + 1
    /\ i' = i + 1
    /\ pc' = "emit"
    /\ UNCHANGED <<runner, ui, inputs, j, token, handles, column_map, keymaps, rowmaps,
                   output_sheet, processed_cols, saved, file_info, outcome>>

\* lines 554-555: close every source workbook
MergeClose ==
    /\ op = "merge" /\ pc = "emit" /\ i > Len(EmitOrder(columns_by_file, NumFiles))
    /\ open_handles' = open_handles \ {source_workbooks[k] : k \in 1..Len(source_workbooks)}
    /\ pc' = "save"
    /\ UNCHANGED <<runner, ui, inputs, i, j, token, source_workbooks, column_map, keymaps, rowmaps,
                   output, progress, saved, file_info, outcome>>

\* lines 558-563: the last tick, save, return
MergeSave ==
    /\ op = "merge" /\ pc = "save"
    /\ progress' = Append(progress, <<100, 100>>)
    /\ saved' = [exists |-> TRUE, sheet |-> output_sheet]
    /\ pc' = "done"
    /\ outcome' = "returned"
    /\ UNCHANGED <<runner, ui, inputs, i, j, token, handles, column_map, keymaps, rowmaps,
                   output, file_info>>

\* line 559: save raises (unwritable path)
MergeSaveFail ==
    /\ op = "merge" /\ pc = "save"
    /\ progress' = Append(progress, <<100, 100>>)
    /\ Raise("IOError")
    /\ UNCHANGED <<runner, ui, inputs, i, j, token, handles, column_map, keymaps, rowmaps,
                   output, saved, file_info>>

Merge ==
    \/ MergeOpen \/ MergeOpenFail \/ MergeColumnMaps \/ MergeReferenceKeys
    \/ MergeGroup \/ MergeRowMapping \/ MergeEmitStart \/ MergeEmitColumn
    \/ MergeEmitRow \/ MergeEmitColumnEnd \/ MergeClose \/ MergeSave \/ MergeSaveFail

(***************************************************************************)
(* ExcelAnalyzer.extract_columns                                           *)
(***************************************************************************)
\* where the loop of line 268 stands once it has passed k - 1 names
ColumnsPc(k) == IF k > Len(selected_columns) THEN "x_save" ELSE "x_cols"

\* lines 251-267: open the source, look the sheet up, map the selected names
ExtractOpen ==
    /\ op = "extract" /\ pc = "x_open"
    /\ source_workbooks' = <<0>>
    /\ open_handles' = {0}
    /\ IF sheet_name # SheetTitle
       THEN \* line 252: KeyError, no such sheet
            /\ Raise("KeyError")
            /\ UNCHANGED <<i, column_map, output_sheet, output_col_idx>>
       ELSE /\ column_map' = SelectedColumnMap(files[0], selected_columns)
            /\ output_sheet' = <<>>
            /\ output_col_idx' = 1
            /\ i' = 1
            /\ pc' = ColumnsPc(1)
            /\ UNCHANGED outcome
    /\ UNCHANGED <<runner, ui, inputs, j, token, keymaps, rowmaps, processed_cols,
                   progress, saved, file_info>>

\* line 251: load_workbook raises
ExtractOpenFail ==
    /\ op = "extract" /\ pc = "x_open"
    /\ Raise("IOError")
    /\ UNCHANGED <<runner, ui, inputs, i, j, token, handles, column_map, keymaps, rowmaps, output,
                   progress, saved, file_info>>

\* variant: a name the header lacks takes an output column
ExtractColumnLeavingGap ==
    /\ op = "extract" /\ pc = "x_cols"
    /\ IF Has(column_map, selected_columns[i])
       THEN /\ pc' = "x_rows"
            /\ j' = 1
            /\ UNCHANGED <<i, output_col_idx>>
       ELSE /\ i' = i + 1
            /\ output_col_idx' = output_col_idx + 1
            /\ pc' = ColumnsPc(i + 1)
            /\ UNCHANGED j
    /\ UNCHANGED <<runner, ui, inputs, token, handles, column_map, keymaps, rowmaps,
                   output_sheet, processed_cols, progress, saved, file_info, outcome>>
\* lines 268-274: the next selected name, skipped when the header lacks it
ExtractColumn ==
    /\ op = "extract" /\ pc = "x_cols"
    /\ IF Has(column_map, selected_columns[i])
       THEN /\ pc' = "x_rows"
            /\ j' = 1
            /\ UNCHANGED i
       ELSE /\ i' = i + 1
            /\ pc' = ColumnsPc(i + 1)
            /\ UNCHANGED j
    /\ UNCHANGED <<runner, ui, inputs, token, handles, column_map, keymaps, rowmaps, output,
                   progress, saved, file_info, outcome>>

\* lines 275-320: the checkpoint of a row, its cell, a tick every 100 rows
ExtractRow ==
    /\ op = "extract" /\ pc = "x_rows"
    /\ LET total_rows == max_row(files[0])
           source_col_idx == Get(column_map, selected_columns[i])
       IN /\ j <= total_rows
          /\ \/ /\ RaiseIfCancelled
                /\ UNCHANGED <<j, output_sheet, progress>>
             \/ /\ ~cancelled
                /\ output_sheet' = SetCell(output_sheet, j, output_col_idx,
                                           files[0][j][source_col_idx])
                /\ progress' = IF j % ProgressInterval = 0
                               THEN Append(progress, <<j * output_col_idx,
                                                       total_rows * Len(selected_columns)>>)
                               ELSE progress
                /\ j' = j + 1
                /\ UNCHANGED <<pc, outcome>>
    /\ UNCHANGED <<runner, ui, inputs, i, token, handles, column_map, keymaps, rowmaps,
                   output_col_idx, processed_cols, saved, file_info>>

\* lines 322-327: the next output column
ExtractColumnEnd ==
    /\ op = "extract" /\ pc = "x_rows"
    /\ j > max_row(files[0])
    /\ output_col_idx' = output_col_idx + 1
    /\ i' = i + 1
    /\ pc' = ColumnsPc(i + 1)
    /\ UNCHANGED <<runner, ui, inputs, j, token, handles, column_map, keymaps, rowmaps,
                   output_sheet, processed_cols, progress, saved, file_info, outcome>>

\* lines 330-336: the last tick, save, close the source, return
ExtractSave ==
    /\ op = "extract" /\ pc = "x_save"
    /\ progress' = Append(progress, <<100, 100>>)
    /\ saved' = [exists |-> TRUE, sheet |-> output_sheet]
    /\ open_handles' = open_handles \ {0}
    /\ pc' = "done"
    /\ outcome' = "returned"
    /\ UNCHANGED <<runner, ui, inputs, i, j, token, source_workbooks, column_map, keymaps, rowmaps,
                   output, file_info>>

\* line 331: save raises
ExtractSaveFail ==
    /\ op = "extract" /\ pc = "x_save"
    /\ progress' = Append(progress, <<100, 100>>)
    /\ Raise("IOError")
    /\ UNCHANGED <<runner, ui, inputs, i, j, token, handles, column_map, keymaps, rowmaps,
                   output, saved, file_info>>

Extract ==
    \/ ExtractOpen \/ ExtractOpenFail \/ ExtractColumn \/ ExtractRow
    \/ ExtractColumnEnd \/ ExtractSave \/ ExtractSaveFail

(***************************************************************************)
(* ExcelAnalyzer.load_file_info                                            *)
(***************************************************************************)
NoSheetName == "<None>"

\* variant: a blank header cell named by the empty string
ColumnsWithoutSynthesis(sheet, file_index) ==
    [k \in 1..max_column(sheet) |->
        [name |-> IF sheet[1][k] # None THEN PyStr(sheet[1][k]) ELSE "",
         index |-> k, file_index |-> file_index]]
\* lines 197-207: the catalog of the header row
Columns(sheet, file_index) ==
    [k \in 1..max_column(sheet) |->
        [name |-> HeaderName(sheet[1][k], k), index |-> k, file_index |-> file_index]]

\* lines 184-221, read-only workbook
LoadFileInfo ==
    /\ op = "load" /\ pc = "load"
    /\ source_workbooks' = <<0>>
    /\ IF sheet_name # NoSheetName /\ sheet_name # SheetTitle
       THEN \* line 189: ValueError, raised before workbook.close()
            /\ open_handles' = {0}
            /\ Raise("ValueError")
            /\ UNCHANGED file_info
       ELSE /\ file_info' = [sheet_name |-> SheetTitle,
                             columns |-> Columns(files[0], 0),
                             total_rows |-> max_row(files[0]),
                             file_index |-> 0]
            /\ open_handles' = {}
            /\ pc' = "done"
            /\ outcome' = "returned"
    /\ UNCHANGED <<runner, ui, inputs, i, j, token, column_map, keymaps, rowmaps, output,
                   progress, saved>>

\* line 184: load_workbook raises
LoadFail ==
    /\ op = "load" /\ pc = "load"
    /\ Raise("IOError")
    /\ UNCHANGED <<runner, ui, inputs, i, j, token, handles, column_map, keymaps, rowmaps, output,
                   progress, saved, file_info>>

Load == LoadFileInfo \/ LoadFail

(***************************************************************************)
(* The inputs the operations are run on.                                   *)
(***************************************************************************)
\* all key columns of at most MaxRows rows over the keys 1..MaxKey
KeySeqs == UNION {[1..n -> 1..MaxKey] : n \in 0..MaxRows}

\* A sheet of file f: the cells of a column headed "ID" hold the keys, every
\* other data cell holds a text that names its own position.
MkSheet(f, header, keys) ==
    <<header>> \o
    [r \in 1..Len(keys) |->
        [c \in 1..Len(header) |->
            IF header[c] = StrVal("ID") THEN IntVal(keys[r])
            ELSE StrVal("f" \o ToString(f) \o "r" \o ToString(r + 1) \o "c" \o ToString(c))]]

\* The merges run: the headers of file 0 and of file 1, the selection and
\* the reference map (a dict, in insertion order).
IDName == <<StrVal("ID"), StrVal("Name")>>
IDScore == <<StrVal("ID"), StrVal("Score")>>
NameID == <<StrVal("Name"), StrVal("ID")>>
ScoreBlank == <<StrVal("Score"), None>>
MergeCases ==
    { \* file 1 selects no reference name
      <<IDName, IDScore, << <<0, "ID">>, <<0, "Name">>, <<1, "Score">> >>, << <<"ID", 0>> >> >>,
      \* both files select the reference column
      <<IDName, IDScore, << <<0, "ID">>, <<0, "Name">>, <<1, "ID">>, <<1, "Score">> >>,
        << <<"ID", 0>> >> >>,
      \* the files interleaved in the selection, file 1 the reference
      <<IDName, IDScore, << <<1, "ID">>, <<0, "ID">>, <<0, "Name">> >>, << <<"ID", 1>> >> >>,
      \* two reference names selected from both files
      <<NameID, IDName, << <<1, "Name">>, <<1, "ID">>, <<0, "ID">>, <<0, "Name">> >>,
        << <<"ID", 0>>, <<"Name", 0>> >> >>,
      \* no reference map, one selected name that its file lacks
      <<IDName, ScoreBlank, << <<1, "Score">>, <<0, "Name">>, <<1, "ID">> >>, <<>> >>,
      \* the reference file lacks the reference column
      <<IDName, ScoreBlank, << <<1, "Score">>, <<0, "Score">>, <<0, "ID">> >>,
        << <<"Score", 0>> >> >>,
      \* a file selects the reference name and lacks the column
      <<IDName, ScoreBlank, << <<0, "ID">>, <<1, "ID">>, <<1, "Score">> >>, << <<"ID", 0>> >> >>,
      \* the reference file itself selects no reference name
      <<IDName, IDScore, << <<0, "Name">>, <<1, "ID">>, <<1, "Score">> >>, << <<"ID", 0>> >> >>,
      \* a file selects a reference name that it and the reference file lack
      <<IDName, ScoreBlank, << <<0, "Score">>, <<0, "ID">>, <<1, "Score">> >>,
        << <<"Score", 0>> >> >>,
      \* nothing selected
      <<IDName, IDScore, <<>>, <<>> >> }

NoInputs ==
    [op |-> "", files |-> <<>>, sheet_name |-> SheetTitle, selected_columns |-> <<>>,
     selected_cols_info |-> <<>>, reference_column_map |-> <<>>]

MergeInputs ==
    { [NoInputs EXCEPT !.op = "merge",
                       !.files = ZeroBased(<<MkSheet(0, c[1], k0), MkSheet(1, c[2], k1)>>),
                       !.selected_cols_info = c[3],
                       !.reference_column_map = c[4]] :
        c \in MergeCases, k0 \in KeySeqs, k1 \in KeySeqs }

\* the worked scenario: A (ID, Name), B (ID, Score), selection
\* [(A, ID), (A, Name), (B, Score)], reference map {ID: A}
ScenarioA ==
    << <<StrVal("ID"), StrVal("Name")>>,
       <<IntVal(1), StrVal("Alice")>>, <<IntVal(2), StrVal("Bob")>>,
       <<IntVal(3), StrVal("Carol")>> >>
ScenarioB ==
    << <<StrVal("ID"), StrVal("Score")>>,
       <<IntVal(2), IntVal(90)>>, <<IntVal(3), IntVal(85)>>, <<IntVal(4), IntVal(77)>> >>
ScenarioInputs ==
    [NoInputs EXCEPT !.op = "merge",
                     !.files = ZeroBased(<<ScenarioA, ScenarioB>>),
                     !.selected_cols_info = << <<0, "ID">>, <<0, "Name">>, <<1, "Score">> >>,
                     !.reference_column_map = << <<"ID", 0>> >>]

\* a merge with both files driven by ID and file 1 the reference: its keys
\* are out of order, one of them repeated, two of them unknown to file 0
DrivenB ==
    << <<StrVal("ID"), StrVal("Score")>>,
       <<IntVal(3), IntVal(85)>>, <<IntVal(4), IntVal(77)>>, <<IntVal(2), IntVal(90)>>,
       <<IntVal(3), IntVal(91)>>, <<IntVal(5), IntVal(60)>> >>
DrivenInputs ==
    [NoInputs EXCEPT !.op = "merge",
                     !.files = ZeroBased(<<ScenarioA, DrivenB>>),
                     !.selected_cols_info =
                         << <<0, "ID">>, <<0, "Name">>, <<1, "ID">>, <<1, "Score">> >>,
                     !.reference_column_map = << <<"ID", 1>> >>]

\* header rows of the sheet of an extraction or of a load: plain, with a
\* blank cell, with a repeated name, with a number and an empty text
SingleHeaders ==
    { <<StrVal("ID"), StrVal("Name")>>,
      <<None, StrVal("ID")>>,
      <<StrVal("ID"), StrVal("ID")>>,
      <<IntVal(7), StrVal("")>> }

SelectableNames == {"ID", "Name", SyntheticPrefix \o "1", "7", "Zed"}
NameSeqs == UNION {[1..n -> SelectableNames] : n \in 0..2}

ExtractInputs ==
    { [NoInputs EXCEPT !.op = "extract",
                       !.files = ZeroBased(<<MkSheet(0, h, k)>>),
                       !.sheet_name = sn,
                       !.selected_columns = names] :
        h \in SingleHeaders, k \in KeySeqs, sn \in {SheetTitle, "Other"}, names \in NameSeqs }

LoadInputs ==
    { [NoInputs EXCEPT !.op = "load",
                       !.files = ZeroBased(<<MkSheet(0, h, k)>>),
                       !.sheet_name = sn] :
        h \in SingleHeaders, k \in KeySeqs, sn \in {NoSheetName, SheetTitle, "Other"} }

Inputs == MergeInputs \cup {ScenarioInputs, DrivenInputs} \cup ExtractInputs \cup LoadInputs

OperationInit(input) ==
    /\ op = input.op
    /\ files = input.files
    /\ sheet_name = input.sheet_name
    /\ selected_columns = input.selected_columns
    /\ selected_cols_info = input.selected_cols_info
    /\ reference_column_map = input.reference_column_map
    /\ pc = IF input.op = "merge" THEN "open" ELSE IF input.op = "extract" THEN "x_open" ELSE "load"
    /\ i = 0 /\ j = 0
    /\ cancelled = FALSE /\ cancel_before_save = FALSE
    /\ source_workbooks = <<>> /\ open_handles = {}
    /\ column_map = <<>> /\ column_maps = <<>>
    /\ reference_keys = <<>> /\ reference_key_to_row = <<>>
    /\ columns_by_file = <<>> /\ row_mapping = <<>> /\ final_row_count = 0
    /\ output_sheet = <<>> /\ output_col_idx = 0 /\ processed_cols = 0
    /\ progress = <<>>
    /\ saved = NoFile
    /\ file_info = NoInfo
    /\ outcome = "running"

\* no progress dialog, nothing shown
NoProgress == [current |-> 0, total |-> 100]
NotShown == [shown |-> FALSE, value |-> 0]
NoMerge == [made |-> FALSE, selected_cols_info |-> <<>>, outcome |-> "", row_mapping |-> <<>>,
            sheet |-> <<>>]
UiInit ==
    /\ task_progress = NoProgress
    /\ progress_bar = NotShown
    /\ file_infos = <<>>
    /\ earlier_merge = NoMerge

\* The calls of execute: one, and another made while the first may still run.
Calls == <<"first", "second">>
CallSet == {Calls[n] : n \in 1..Len(Calls)}
NoToken == "None"

RunnerInit ==
    /\ cancellation_token = NoToken
    /\ tokens = [c \in CallSet |-> FALSE]
    /\ threads = [c \in CallSet |-> [pc |-> "idle", token |-> NoToken, checkpoints |-> 0]]
    /\ after_queue = <<>>
    /\ delivered = [c \in CallSet |-> <<>>]

Init == RunnerInit /\ UiInit /\ \E input \in Inputs : OperationInit(input)

Next == Merge \/ Extract \/ Load \/ Cancel

Spec == Init /\ [][Next]_vars

(***************************************************************************)
(* AsyncTaskExecutor: execute, the worker's run_task, cancel, and the      *)
(* event loop that runs the callbacks posted with root.after.  The         *)
(* operation is any task_func of TaskCheckpoints checkpoints, each         *)
(* followed by a progress tick; all four callbacks are supplied.           *)
(***************************************************************************)
Post(k, kind, payload) == after_queue' = Append(after_queue, <<k, kind, payload>>)

\* lines 99-123, on the controlling thread: a new token, a new thread
Execute(n) ==
    /\ threads[Calls[n]].pc = "idle"
    /\ n > 1 => threads[Calls[n - 1]].pc # "idle"
    /\ cancellation_token' = Calls[n]
    /\ threads' = [threads EXCEPT ![Calls[n]].pc = "start"]
    /\ UNCHANGED <<opvars, ui, tokens, after_queue, delivered>>

\* lines 125-128, on the controlling thread
CancelCall ==
    /\ cancellation_token # NoToken
    /\ ~tokens[cancellation_token]
    /\ tokens' = [tokens EXCEPT ![cancellation_token] = TRUE]
    /\ UNCHANGED <<opvars, ui, cancellation_token, threads, after_queue, delivered>>

\* line 109: the worker evaluates self.cancellation_token and calls task_func
RunTaskStart(k) ==
    /\ threads[k].pc = "start"
    /\ threads' = [threads EXCEPT ![k].pc = "task", ![k].token = cancellation_token]
    /\ UNCHANGED <<opvars, ui, cancellation_token, tokens, after_queue, delivered>>

\* variant: the tick handed to on_progress by the worker itself
TaskCheckpointDirect(k) ==
    /\ threads[k].pc = "task"
    /\ threads[k].checkpoints < TaskCheckpoints
    /\ IF tokens[threads[k].token]
       THEN /\ Post(k, "on_cancelled", 0)
            /\ threads' = [threads EXCEPT ![k].pc = "exit"]
            /\ UNCHANGED delivered
       ELSE /\ delivered' = [delivered EXCEPT
                                ![k] = Append(@, <<"on_progress", threads[k].checkpoints + 1, "worker">>)]
            /\ threads' = [threads EXCEPT ![k].checkpoints = @ + 1]
            /\ UNCHANGED after_queue
    /\ UNCHANGED <<opvars, ui, cancellation_token, tokens>>
\* a checkpoint of the operation: raise_if_cancelled on the token it was
\* given (lines 63-66, handled at 113-115), else a tick (lines 101-105)
TaskCheckpoint(k) ==
    /\ threads[k].pc = "task"
    /\ threads[k].checkpoints < TaskCheckpoints
    /\ IF tokens[threads[k].token]
       THEN /\ Post(k, "on_cancelled", 0)
            /\ threads' = [threads EXCEPT ![k].pc = "exit"]
       ELSE /\ Post(k, "on_progress", threads[k].checkpoints + 1)
            /\ threads' = [threads EXCEPT ![k].checkpoints = @ + 1]
    /\ UNCHANGED <<opvars, ui, cancellation_token, tokens, delivered>>

\* the operation raises another exception (lines 116-118): the callback
\* posted is a lambda that reads the handler's variable e when it is run
TaskError(k) ==
    /\ threads[k].pc = "task"
    /\ Post(k, "on_error", 0)
    /\ threads' = [threads EXCEPT ![k].pc = "except"]
    /\ UNCHANGED <<opvars, ui, cancellation_token, tokens, delivered>>

\* the end of the except clause of line 116 unbinds e
LeaveExcept(k) ==
    /\ threads[k].pc = "except"
    /\ threads' = [threads EXCEPT ![k].pc = "exit"]
    /\ UNCHANGED <<opvars, ui, cancellation_token, tokens, after_queue, delivered>>

\* the operation returns its result
TaskReturn(k) ==
    /\ threads[k].pc = "task"
    /\ threads[k].checkpoints = TaskCheckpoints
    /\ threads' = [threads EXCEPT ![k].pc = "returned"]
    /\ UNCHANGED <<opvars, ui, cancellation_token, tokens, after_queue, delivered>>

\* lines 110-112: on_complete unless self.cancellation_token is cancelled
RunTaskComplete(k) ==
    /\ threads[k].pc = "returned"
    /\ IF ~tokens[cancellation_token]
       THEN Post(k, "on_complete", 0)
       ELSE UNCHANGED after_queue
    /\ threads' = [threads EXCEPT ![k].pc = "exit"]
    /\ UNCHANGED <<opvars, ui, cancellation_token, tokens, delivered>>

\* what running a posted callback on the controlling thread delivers: the
\* lambda of line 118 raises NameError, and on_error is not called, once the
\* worker has left the except clause
Run(callback) ==
    IF callback[2] = "on_error" /\ threads[callback[1]].pc # "except"
    THEN <<>>
    ELSE << <<callback[2], callback[3], "controlling">> >>

\* variant: the event loop runs the newest callback first
DeliverNewest ==
    /\ after_queue # <<>>
    /\ LET last == after_queue[Len(after_queue)]
       IN delivered' = [delivered EXCEPT ![last[1]] = @ \o Run(last)]
    /\ after_queue' = SubSeq(after_queue, 1, Len(after_queue) - 1)
    /\ UNCHANGED <<opvars, ui, cancellation_token, tokens, threads>>
\* the event loop of the controlling thread runs the oldest callback
Deliver ==
    /\ after_queue # <<>>
    /\ LET head == Head(after_queue)
       IN delivered' = [delivered EXCEPT ![head[1]] = @ \o Run(head)]
    /\ after_queue' = Tail(after_queue)
    /\ UNCHANGED <<opvars, ui, cancellation_token, tokens, threads>>

InitExec == RunnerInit /\ UiInit /\ OperationInit(NoInputs)

NextExec ==
    \/ \E n \in 1..Len(Calls) : Execute(n)
    \/ CancelCall
    \/ Deliver
    \/ \E k \in CallSet : RunTaskStart(k)
    \/ \E k \in CallSet : TaskCheckpoint(k)
    \/ \E k \in CallSet : TaskError(k)
    \/ \E k \in CallSet : LeaveExcept(k)
    \/ \E k \in CallSet : TaskReturn(k)
    \/ \E k \in CallSet : RunTaskComplete(k)

SpecExec == InitExec /\ [][NextExec]_vars

(***************************************************************************)
(* ProgressDialog.update_progress on a TaskProgress of any current and     *)
(* total: the value the progress bar is set to.                            *)
(***************************************************************************)
Ticks == [current : (-MaxTick)..MaxTick, total : (-MaxTick)..MaxTick]

\* lines 751-756
UpdateProgress ==
    /\ ~progress_bar.shown
    /\ progress_bar' = [shown |-> TRUE,
                        value |-> percentage(task_progress.current, task_progress.total)]
    /\ UNCHANGED <<opvars, runner, task_progress, file_infos, earlier_merge>>

InitPercentage ==
    /\ RunnerInit /\ OperationInit(NoInputs)
    /\ task_progress \in Ticks
    /\ progress_bar = NotShown
    /\ file_infos = <<>>
    /\ earlier_merge = NoMerge

NextPercentage == UpdateProgress

SpecPercentage == InitPercentage /\ [][NextPercentage]_vars

(***************************************************************************)
(* extract_columns on a sheet long enough for the ticks of line 314.       *)
(***************************************************************************)
LongSheet == MkSheet(0, IDName, [r \in 1..(LongRows - 1) |-> 1])
LongInputs ==
    { [NoInputs EXCEPT !.op = "extract",
                       !.files = ZeroBased(<<LongSheet>>),
                       !.sheet_name = sn,
                       !.selected_columns = names] :
        sn \in {SheetTitle, "Other"},
        names \in {<<"ID">>, <<"ID", "Name">>, <<"Zed", "Name">>} }

InitLongExtract == RunnerInit /\ UiInit /\ \E input \in LongInputs : OperationInit(input)

NextLongExtract == Extract \/ Cancel

SpecLongExtract == InitLongExtract /\ [][NextLongExtract]_vars

(***************************************************************************)
(* MainUI: the list of loaded files under _on_select_files and             *)
(* _on_remove_file.  An entry keeps, next to the fields of ExcelFileInfo,  *)
(* the index it was loaded with (loaded_at).                               *)
(***************************************************************************)
Paths == {"a.xlsx", "b.xlsx", "c.xlsx", "d.xlsx"}

\* the header row of the sheet stored at a path
PathHeader(path) ==
    IF path = "a.xlsx" THEN IDName
    ELSE IF path = "b.xlsx" THEN IDScore
    ELSE IF path = "c.xlsx" THEN ScoreBlank
    ELSE <<StrVal("ID")>>

\* load_file_info(file_path, file_index = file_index), lines 1000-1001
LoadedInfo(path, file_index) ==
    [file_path |-> path,
     file_index |-> file_index,
     loaded_at |-> file_index,
     columns |-> Columns(<<PathHeader(path)>>, file_index)]

\* lines 994-1002 over the first n chosen paths; the load of the path at
\* position fail_at raises, which ends the loop (lines 1014-1017)
RECURSIVE LoadBatch(_, _, _, _)
LoadBatch(infos, file_paths, fail_at, n) ==
    IF n = 0 THEN [infos |-> infos, raised |-> FALSE]
    ELSE LET prev == LoadBatch(infos, file_paths, fail_at, n - 1)
             file_path == file_paths[n]
         IN IF prev.raised THEN prev
            ELSE IF \E k \in 1..Len(prev.infos) : prev.infos[k].file_path = file_path
            THEN prev
            ELSE IF n = fail_at THEN [infos |-> prev.infos, raised |-> TRUE]
            ELSE [infos |-> Append(prev.infos, LoadedInfo(file_path, Len(prev.infos))),
                  raised |-> FALSE]

Batches == UNION {[1..n -> Paths] : n \in 1..MaxBatch}

\* lines 980-1012: every chosen path is loaded or skipped
OnSelectFiles ==
    /\ \E file_paths \in Batches :
          file_infos' = LoadBatch(file_infos, file_paths, 0, Len(file_paths)).infos
    /\ UNCHANGED <<opvars, runner, task_progress, progress_bar, earlier_merge>>

\* lines 980-1017: a load raises part-way, the files loaded before it stay
OnSelectFilesFail ==
    /\ \E file_paths \in Batches : \E fail_at \in 1..Len(file_paths) :
          LET batch == LoadBatch(file_infos, file_paths, fail_at, Len(file_paths))
          IN /\ batch.raised
             /\ file_infos' = batch.infos
    /\ UNCHANGED <<opvars, runner, task_progress, progress_bar, earlier_merge>>

\* list.pop(index), index counted from 0
Pop(infos, index) ==
    [k \in 1..(Len(infos) - 1) |-> IF k <= index THEN infos[k] ELSE infos[k + 1]]

\* lines 1028-1031: pop the selected indices from the last to the first
RECURSIVE PopReversed(_, _)
PopReversed(infos, selected_indices) ==
    IF selected_indices = {} THEN infos
    ELSE LET index == CHOOSE x \in selected_indices : \A y \in selected_indices : y <= x
             rest == selected_indices \ {index}
         IN IF 0 <= index /\ index < Len(infos)
            THEN PopReversed(Pop(infos, index), rest)
            ELSE PopReversed(infos, rest)

\* variant: the indices left as they were
KeepIndices(infos) == infos
\* lines 1033-1037: file_index of every file and of its columns reassigned
Reindex(infos) ==
    [k \in 1..Len(infos) |->
        [infos[k] EXCEPT !.file_index = k - 1,
                         !.columns = [c \in 1..Len(@) |-> [@[c] EXCEPT !.file_index = k - 1]]]]

\* lines 1020-1048, with a selection that is not empty
OnRemoveFile ==
    /\ \E selected_indices \in (SUBSET (0..(Len(file_infos) - 1))) \ {{}} :
          file_infos' = Reindex(PopReversed(file_infos, selected_indices))
    /\ UNCHANGED <<opvars, runner, task_progress, progress_bar, earlier_merge>>

InitFiles == RunnerInit /\ UiInit /\ OperationInit(NoInputs)

NextFiles == OnSelectFiles \/ OnSelectFilesFail \/ OnRemoveFile

SpecFiles == InitFiles /\ [][NextFiles]_vars

(***************************************************************************)
(* Vocabulary of the properties, read off the inputs and the output file.  *)
(***************************************************************************)
\* the columns of a sheet whose header cell has the given name
NamedColumns(sheet, name) ==
    {k \in 1..max_column(sheet) : HeaderName(sheet[1][k], k) = name}
\* the column a name resolves to (the last one of that name)
ColumnOf(sheet, name) ==
    LET named == NamedColumns(sheet, name)
    IN CHOOSE k \in named : \A m \in named : m <= k
\* the columns and the value of a cell of an output sheet
OutputColumns(sheet) == {c[2] : c \in DOMAIN sheet}
CellValue(sheet, row, column) ==
    IF <<row, column>> \in DOMAIN sheet THEN sheet[<<row, column>>] ELSE None

\* the names selected from file f, in selection order
NamesSelectedFrom(f) ==
    LET pairs == SelectSeq(selected_cols_info, LAMBDA p : p[1] = f)
    IN [n \in 1..Len(pairs) |-> pairs[n][2]]
\* R is the first name selected from f that is a key of the reference map
DrivenBy(f, R) ==
    LET names == NamesSelectedFrom(f)
    IN \E n \in 1..Len(names) :
          /\ names[n] = R
          /\ Has(reference_column_map, R)
          /\ \A m \in 1..(n - 1) : ~Has(reference_column_map, names[m])
\* the cells of column R of file f below the header, by row
KeyColumn(f, R) ==
    LET column == ColumnOf(files[f], R)
    IN [r \in 2..max_row(files[f]) |-> files[f][r][column]]
\* the values of column R of file f below the header, and the first row of one
KeysOf(f, R) ==
    LET keys == KeyColumn(f, R)
    IN {keys[r] : r \in DOMAIN keys}
FirstRowOf(f, R, key) ==
    LET keys == KeyColumn(f, R)
    IN CHOOSE r \in DOMAIN keys :
          /\ keys[r] = key
          /\ \A q \in 2..(r - 1) : keys[q] # key
RowMapped(f, r) == Has(row_mapping, f) /\ Has(Get(row_mapping, f), r)
TargetOf(f, r) == Get(Get(row_mapping, f), r)

\* files A and B land their rows of every shared key of column R on one row
Aligned(A, B, R) ==
    \A key \in KeysOf(A, R) \cap KeysOf(B, R) :
        /\ RowMapped(A, FirstRowOf(A, R, key))
        /\ RowMapped(B, FirstRowOf(B, R, key))
        /\ TargetOf(A, FirstRowOf(A, R, key)) = TargetOf(B, FirstRowOf(B, R, key))
\* both files contribute columns, their row mappings are computed, both have R
BothContribute(A, B, R) ==
    /\ Has(row_mapping, A) /\ Has(row_mapping, B)
    /\ NamedColumns(files[A], R) # {} /\ NamedColumns(files[B], R) # {}

IsScenario == op = "merge" /\ files = ScenarioInputs.files
RowOf(sheet, row) == [c \in 1..3 |-> CellValue(sheet, row, c)]
Holds(sheet, value) == \E c \in DOMAIN sheet : sheet[c] = value

\* C2 as stated: rows (1, Alice, blank), (2, Bob, 90), (3, Carol, 85) under
\* the header ID, Name, Score, and B's score 77 for ID 4 in no output row.
C2_ScenarioAsStated ==
    (IsScenario /\ outcome = "returned") =>
        /\ RowOf(saved.sheet, 1) = <<StrVal("ID"), StrVal("Name"), StrVal("Score")>>
        /\ RowOf(saved.sheet, 2) = <<IntVal(1), StrVal("Alice"), None>>
        /\ RowOf(saved.sheet, 3) = <<IntVal(2), StrVal("Bob"), IntVal(90)>>
        /\ RowOf(saved.sheet, 4) = <<IntVal(3), StrVal("Carol"), IntVal(85)>>
        /\ ~Holds(saved.sheet, IntVal(77))

\* C2 amended: B selects no reference name, so its rows keep their own
\* places: rows (1, Alice, 90), (2, Bob, 85), (3, Carol, 77) under the header
\* ID, Name, Score, and nothing outside these three columns and four rows.
C2_ScenarioAsComputed ==
    (IsScenario /\ outcome = "returned") =>
        /\ RowOf(saved.sheet, 1) = <<StrVal("ID"), StrVal("Name"), StrVal("Score")>>
        /\ RowOf(saved.sheet, 2) = <<IntVal(1), StrVal("Alice"), IntVal(90)>>
        /\ RowOf(saved.sheet, 3) = <<IntVal(2), StrVal("Bob"), IntVal(85)>>
        /\ RowOf(saved.sheet, 4) = <<IntVal(3), StrVal("Carol"), IntVal(77)>>
        /\ DOMAIN saved.sheet = (1..4) \X (1..3)

C2_Witness == IsScenario /\ outcome = "returned" /\ saved.exists

(***************************************************************************)
(* C3: the terminal callbacks of a call of execute.                        *)
(***************************************************************************)
TerminalKinds == {"on_complete", "on_error", "on_cancelled"}
TerminalsDelivered(c) ==
    Len(SelectSeq(delivered[c], LAMBDA d : d[1] \in TerminalKinds))
Pending(c) == \E n \in 1..Len(after_queue) : after_queue[n][1] = c

\* no other call of execute has been made
RunsAlone(c) == \A d \in CallSet \ {c} : threads[d].pc = "idle"

\* C3 as stated, for a call that runs alone: once its worker has ended and
\* the event loop has run everything it posted, exactly one of on_complete,
\* on_error and on_cancelled has been delivered for it.
C3_ExactlyOneTerminalCallback ==
    \A c \in CallSet :
        (RunsAlone(c) /\ threads[c].pc = "exit" /\ ~Pending(c)) => TerminalsDelivered(c) = 1

(***************************************************************************)
(* C4: cancellation and the output file.                                   *)
(***************************************************************************)
\* C4 as stated: an extraction or merge that cancel() reached before its
\* save step ends with no file saved at output_path.
C4_CancelLeavesNoArtifact ==
    (op \in {"extract", "merge"} /\ pc = "done" /\ cancel_before_save) => ~saved.exists

(***************************************************************************)
(* C5: the columns of an extraction.                                       *)
(***************************************************************************)
\* the selected names that the header has, in selection order
EmittedNames ==
    SelectSeq(selected_columns, LAMBDA name : NamedColumns(files[0], name) # {})

\* C5: a finished extraction has the output columns 1..m, column j headed by
\* the header cell of the j-th selected name that exists in the source
\* header, and no extraction of an existing sheet fails for a missing name:
\* it returns, is cancelled, or fails on the file.
C5_ExtractorOrder ==
    /\ (op = "extract" /\ outcome = "returned") =>
          /\ OutputColumns(saved.sheet) = 1..Len(EmittedNames)
          /\ \A c \in 1..Len(EmittedNames) :
                \E k \in NamedColumns(files[0], EmittedNames[c]) :
                    /\ <<1, c>> \in DOMAIN saved.sheet
                    /\ saved.sheet[<<1, c>>] = files[0][1][k]
    /\ (op = "extract" /\ pc = "done" /\ sheet_name = SheetTitle) =>
          outcome \in {"returned", "cancelled", "IOError"}

\* a finished extraction that skipped a name before a name it emitted
C5_Witness ==
    /\ op = "extract" /\ outcome = "returned"
    /\ \E n \in 1..Len(selected_columns) : \E m \in 1..Len(selected_columns) :
          /\ n < m
          /\ NamedColumns(files[0], selected_columns[n]) = {}
          /\ NamedColumns(files[0], selected_columns[m]) # {}

(***************************************************************************)
(* C6: the columns of a merge.                                             *)
(***************************************************************************)
\* the selected pairs whose file has the name, by ascending file and, within
\* a file, in selection order
RECURSIVE ResolvedUpTo(_)
ResolvedUpTo(f) ==
    IF f < 0 THEN <<>>
    ELSE ResolvedUpTo(f - 1) \o
         SelectSeq(selected_cols_info,
                   LAMBDA p : p[1] = f /\ NamedColumns(files[f], p[2]) # {})
ResolvedPairs == ResolvedUpTo(NumFiles - 1)

\* C6: a finished merge has the output columns 1..m, one per resolvable
\* selected pair, in that order, each headed by its source header cell.
C6_MergeColumnStructure ==
    (op = "merge" /\ outcome = "returned") =>
        /\ OutputColumns(saved.sheet) = 1..Len(ResolvedPairs)
        /\ \A c \in 1..Len(ResolvedPairs) :
              LET f == ResolvedPairs[c][1]
                  name == ResolvedPairs[c][2]
              IN /\ <<1, c>> \in DOMAIN saved.sheet
                 /\ saved.sheet[<<1, c>>] = files[f][1][ColumnOf(files[f], name)]

\* a finished merge whose selection names a missing column and visits the
\* files in another order than ascending
C6_Witness ==
    /\ op = "merge" /\ outcome = "returned"
    /\ Len(ResolvedPairs) < Len(selected_cols_info)
    /\ Len(ResolvedPairs) >= 2
    /\ \E n \in 1..(Len(selected_cols_info) - 1) :
          selected_cols_info[n][1] > selected_cols_info[n + 1][1]

(***************************************************************************)
(* C7: files without a reference relation.                                 *)
(***************************************************************************)
SelectsNoReference(f) ==
    \A n \in 1..Len(NamesSelectedFrom(f)) :
        ~Has(reference_column_map, NamesSelectedFrom(f)[n])

\* C7: the row mapping of a file none of whose selected names is a key of the
\* reference map sends row r to row r for r = 2..max_row, in that order.
C7_NonReferenceStacking ==
    op = "merge" =>
        \A f \in DictKeys(row_mapping) :
            SelectsNoReference(f) =>
                Get(row_mapping, f) = [n \in 1..(max_row(files[f]) - 1) |-> <<n + 1, n + 1>>]

\* a finished merge of such a file of two data rows or more next to a
\* reference-driven file of another row count whose mapping is not 1:1
C7_Witness ==
    /\ op = "merge" /\ outcome = "returned"
    /\ \E f \in DictKeys(row_mapping) : \E g \in DictKeys(row_mapping) :
          /\ SelectsNoReference(f) /\ ~SelectsNoReference(g)
          /\ max_row(files[f]) >= 3
          /\ max_row(files[g]) # max_row(files[f])
          /\ Get(row_mapping, g) # [n \in 1..(max_row(files[g]) - 1) |-> <<n + 1, n + 1>>]

(***************************************************************************)
(* C8: the values copied.                                                  *)
(***************************************************************************)
\* C8: in a finished extraction every cell (r, c), r = 1..max_row, of output
\* column c has the value of the source cell of row r in the column of the
\* c-th emitted name; in a finished merge every output column has its source
\* header cell's value in row 1 and, for each pair source row -> target row of
\* its file's row mapping, the source cell's value in the target row.
C8_ValueFidelity ==
    /\ (op = "extract" /\ outcome = "returned") =>
          \A c \in 1..Len(EmittedNames) :
              \E k \in NamedColumns(files[0], EmittedNames[c]) :
                  \A r \in 1..max_row(files[0]) :
                      /\ <<r, c>> \in DOMAIN saved.sheet
                      /\ saved.sheet[<<r, c>>] = files[0][r][k]
    /\ (op = "merge" /\ outcome = "returned") =>
          \A c \in 1..Len(ResolvedPairs) :
              LET f == ResolvedPairs[c][1]
                  k == ColumnOf(files[f], ResolvedPairs[c][2])
                  file_row_map == Get(row_mapping, f)
              IN /\ CellValue(saved.sheet, 1, c) = files[f][1][k]
                 /\ \A n \in 1..Len(file_row_map) :
                       /\ <<file_row_map[n][2], c>> \in DOMAIN saved.sheet
                       /\ saved.sheet[<<file_row_map[n][2], c>>] = files[f][file_row_map[n][1]][k]

\* a finished merge that copied a number from a source row to another row
C8_Witness ==
    /\ op = "merge" /\ outcome = "returned"
    /\ \E c \in 1..Len(ResolvedPairs) :
          LET f == ResolvedPairs[c][1]
              k == ColumnOf(files[f], ResolvedPairs[c][2])
              file_row_map == Get(row_mapping, f)
          IN \E n \in 1..Len(file_row_map) :
                /\ file_row_map[n][1] # file_row_map[n][2]
                /\ files[f][file_row_map[n][1]][k].t = "int"
                /\ saved.sheet[<<file_row_map[n][2], c>>] = files[f][file_row_map[n][1]][k]

(***************************************************************************)
(* C9: the names of the catalog.                                           *)
(***************************************************************************)
\* C9 as stated: the catalog names a blank header cell at position k
\* "Column{k}", and no name of the catalog is the empty string.
C9_HeaderSynthesisAsStated ==
    (op = "load" /\ outcome = "returned") =>
        \A k \in 1..max_column(files[0]) :
            /\ files[0][1][k] = None => file_info.columns[k].name = "Column" \o ToString(k)
            /\ file_info.columns[k].name # ""

\* C9 amended: the catalog names a blank header cell at position k with the
\* character U+5217 followed by k, never with the empty string; every other
\* header cell is named by the text of its value, which is empty only for a
\* cell that holds the empty text.
C9_HeaderSynthesis ==
    (op = "load" /\ outcome = "returned") =>
        /\ Len(file_info.columns) = max_column(files[0])
        /\ \A k \in 1..max_column(files[0]) :
              LET name == file_info.columns[k].name
                  value == files[0][1][k]
              IN /\ value = None => (name = SyntheticPrefix \o ToString(k) /\ name # "")
                 /\ value # None => name = PyStr(value)
                 /\ name = "" => value = StrVal("")

\* a loaded sheet with a blank header cell
C9_Witness ==
    /\ op = "load" /\ outcome = "returned"
    /\ \E k \in 1..max_column(files[0]) :
          /\ files[0][1][k] = None
          /\ file_info.columns[k].name = SyntheticPrefix \o ToString(k)

(***************************************************************************)
(* C10: the source workbooks.                                              *)
(***************************************************************************)
\* C10 as stated: when an extraction or a merge has ended, by return, by
\* cancellation or by another exception, no source workbook it opened is
\* still open.
C10_HandlesReleased ==
    (op \in {"extract", "merge"} /\ pc = "done") => open_handles = {}

(***************************************************************************)
(* C11: the percentage of a TaskProgress.                                  *)
(***************************************************************************)
\* C11 as stated: for every integer current and total the percentage is 0
\* when total <= 0 and otherwise floor(current / total * 100) clamped into
\* 0..100, so it is never below 0 and never above 100.
C11_ProgressPercentage ==
    progress_bar.shown =>
        LET current == task_progress.current
            total == task_progress.total
        IN /\ progress_bar.value =
                 (IF total <= 0 THEN 0 ELSE Max(0, Min(100, (current * 100) \div total)))
           /\ progress_bar.value >= 0
           /\ progress_bar.value <= 100

(***************************************************************************)
(* C12: the ticks of an extraction.                                        *)
(***************************************************************************)
Percentages == [n \in 1..Len(progress) |-> percentage(progress[n][1], progress[n][2])]

\* C12 as stated: the ticks of an extraction that completes have a
\* percentage that never decreases in emission order and ends at 100.
C12_ExtractProgressMonotone ==
    (op = "extract" /\ outcome = "returned") =>
        /\ \A n \in 1..(Len(progress) - 1) : Percentages[n] <= Percentages[n + 1]
        /\ Len(progress) >= 1
        /\ Percentages[Len(progress)] = 100

(***************************************************************************)
(* C13: the indices of the loaded files.                                   *)
(***************************************************************************)
\* C13: after any sequence of loads and removals the file at position i of
\* the list (from 0) has file_index i, and so has each of its columns.
C13_DenseFileIndex ==
    \A k \in 1..Len(file_infos) :
        /\ file_infos[k].file_index = k - 1
        /\ \A c \in 1..Len(file_infos[k].columns) : file_infos[k].columns[c].file_index = k - 1

\* a file with columns that was loaded at a later position than it has now,
\* behind a file that was itself loaded after a removal
C13_Witness ==
    \E k \in 1..Len(file_infos) : \E m \in 1..Len(file_infos) :
        /\ k < m
        /\ file_infos[k].loaded_at > k - 1
        /\ file_infos[m].loaded_at < file_infos[k].loaded_at
        /\ Len(file_infos[k].columns) = 2

(***************************************************************************)
(* C14: the states of a call of execute.                                   *)
(***************************************************************************)
\* C14: a terminal callback is delivered for a call only after its
\* operation has run and ended, and it is the last callback of that call:
\* no tick and no other terminal callback is delivered after it.
C14_TerminalIsAbsorbing ==
    \A c \in CallSet : \A n \in 1..Len(delivered[c]) :
        delivered[c][n][1] \in TerminalKinds =>
            /\ n = Len(delivered[c])
            /\ threads[c].pc \in {"except", "exit"}
            /\ \A m \in 1..Len(after_queue) : after_queue[m][1] # c

\* both calls have had their ticks and then their terminal callback
\* delivered, the callbacks of the two calls interleaved in the queue
C14_Witness ==
    /\ \A c \in CallSet :
          /\ Len(delivered[c]) >= 2
          /\ delivered[c][Len(delivered[c])][1] \in TerminalKinds
    /\ \E c \in CallSet : delivered[c][Len(delivered[c])][1] = "on_error"

(***************************************************************************)
(* C15: the ticks of a call.                                               *)
(***************************************************************************)
TicksDelivered(c) == SelectSeq(delivered[c], LAMBDA d : d[1] = "on_progress")

\* C15: every callback, on_progress included, is run by the controlling
\* thread, and the ticks delivered for a call are its first ticks in the
\* order the operation emitted them (tick n is the n-th delivered).
C15_ProgressRedelivery ==
    \A c \in CallSet :
        /\ \A n \in 1..Len(delivered[c]) : delivered[c][n][3] = "controlling"
        /\ \A n \in 1..Len(TicksDelivered(c)) : TicksDelivered(c)[n][2] = n
        /\ Len(TicksDelivered(c)) <= threads[c].checkpoints

\* two ticks of one call delivered while a tick of the other call and more
\* callbacks wait in the queue
C15_Witness ==
    \E c \in CallSet : \E d \in CallSet \ {c} :
        /\ Len(TicksDelivered(c)) = TaskCheckpoints
        /\ \E m \in 1..Len(after_queue) :
              after_queue[m][1] = d /\ after_queue[m][2] = "on_progress"

(***************************************************************************)
(* C16: the checkpoints of a merge.                                        *)
(***************************************************************************)
\* C16 as stated: once cancel() has set the signal, no step of a merge
\* starts a reference-key scan (no entry of reference_keys is computed any
\* more), and a merge that ends after a cancel() that fell before its save
\* step ends cancelled, unless a file fails first.
C16_MergeCancellationCheckpoints ==
    [][(op = "merge" /\ cancelled) =>
          /\ reference_keys' = reference_keys
          /\ (pc' = "done" /\ cancel_before_save) => outcome' \in {"cancelled", "IOError"}]_vars

(***************************************************************************)
(* C17: the failures of a merge.                                           *)
(***************************************************************************)
\* C17 as stated: a merge ends by returning, by cancellation or by an I/O
\* error, whatever names the selection and the reference map hold: a name
\* that a file lacks is skipped and raises nothing.
C17_MissingColumnsSkipped ==
    (op = "merge" /\ pc = "done") => outcome \in {"returned", "cancelled", "IOError"}

(***************************************************************************)
(* C18: the target rows of a reference-driven file.                        *)
(***************************************************************************)
\* the name that drives file f: the first name selected from it that is a
\* key of the reference map
Driven(f) == \E R \in DictKeys(reference_column_map) : DrivenBy(f, R)
DrivingName(f) == CHOOSE R \in DictKeys(reference_column_map) : DrivenBy(f, R)
HasColumn(f, R) == NamedColumns(files[f], R) # {}

\* the rows of file f that hold the first occurrence of their key of column R
FirstRows(f, R) ==
    LET keys == KeyColumn(f, R)
    IN {r \in DOMAIN keys : \A q \in 2..(r - 1) : keys[q] # keys[r]}
\* those of them whose key is none of the canonical keys
OwnRows(f, R, ref_keys) ==
    LET keys == KeyColumn(f, R)
    IN {r \in FirstRows(f, R) : \A n \in 1..Len(ref_keys) : ref_keys[n] # keys[r]}

\* the row mapping of file f is the one of Step 4b under the canonical keys
DrivenRows(f, R, ref_keys) ==
    LET keys == KeyColumn(f, R)
        first == FirstRows(f, R)
        own == OwnRows(f, R, ref_keys)
        mapping == Get(row_mapping, f)
    IN /\ DictKeys(mapping) = first
       /\ \A n \in 1..Len(ref_keys) : \A r \in first :
             keys[r] = ref_keys[n] => Get(mapping, r) = n + 1
       /\ \A r \in own :
             Get(mapping, r) = Len(ref_keys) + 1 + Cardinality({q \in own : q <= r})

C19_CanonicalKeys ==
    op = "merge" =>
        \A e \in 1..Len(reference_column_map) :
            LET R == reference_column_map[e][1]
                A == reference_column_map[e][2]
            IN /\ (pc \in {"rowmap", "emit", "emit_rows", "save"} /\ HasColumn(A, R))
                    => Has(reference_keys, R)
               /\ Has(reference_keys, R) =>
                 LET keys == Get(reference_keys, R)
                     key_to_row == Get(reference_key_to_row, R)
                     column == KeyColumn(A, R)
                     values == {column[r] : r \in DOMAIN column}
                     first == [key \in values |->
                                  CHOOSE r \in DOMAIN column :
                                      /\ column[r] = key
                                      /\ \A q \in 2..(r - 1) : column[q] # key]
                 IN /\ HasColumn(A, R)
                    /\ {keys[n] : n \in 1..Len(keys)} = values
                    /\ \A n \in 1..Len(keys) : \A m \in 1..Len(keys) :
                          n < m => first[keys[n]] < first[keys[m]]
                    /\ DictKeys(key_to_row) = values
                    /\ \A key \in values : Get(key_to_row, key) = first[key]

\* canonical keys computed from a column that repeats a key after another
\* key and is not in ascending order
C19_Witness ==
    /\ op = "merge"
    /\ \E e \in 1..Len(reference_column_map) :
          LET R == reference_column_map[e][1]
              A == reference_column_map[e][2]
          IN /\ Has(reference_keys, R)
             /\ Len(Get(reference_keys, R)) >= 3
             /\ Len(Get(reference_keys, R)) < max_row(files[A]) - 1
             /\ \E r \in 2..(max_row(files[A]) - 1) :
                   files[A][r][ColumnOf(files[A], R)].i > files[A][r + 1][ColumnOf(files[A], R)].i

(***************************************************************************)
(* C20: the driving reference of a file.                                   *)
(***************************************************************************)
\* Step 4 has reached file f: its row mapping is there, or the step raised
\* while it was computing it
Attempted(f) ==
    \/ Has(row_mapping, f)
    \/ /\ pc = "done" /\ outcome = "KeyError"
       /\ i >= 1 /\ i <= Len(columns_by_file)
       /\ columns_by_file[i][1] = f
OneToOne(f) == [n \in 1..(max_row(files[f]) - 1) |-> <<n + 1, n + 1>>]

\* C20 as stated: a file is driven by the first name of its selection that
\* is a key of the reference map, whatever reference names follow in its
\* selection: with a column of that name its rows are placed by that name's
\* canonical keys, and without one its row mapping is the 1:1 mapping.
C20_DrivingReference ==
    op = "merge" =>
        \A f \in DOMAIN files :
            (Attempted(f) /\ Driven(f)) =>
                LET R == DrivingName(f)
                IN IF HasColumn(f, R)
                   THEN (Has(row_mapping, f) /\ Has(reference_keys, R))
                            => DrivenRows(f, R, Get(reference_keys, R))
                   ELSE Has(row_mapping, f) /\ Get(row_mapping, f) = OneToOne(f)

(***************************************************************************)
(* Merges of three files: file 0 holds the canonical keys of ID, files 1   *)
(* and 2 select ID as well and may hold keys that file 0 lacks.            *)
(***************************************************************************)
IDRank == <<StrVal("ID"), StrVal("Rank")>>
ThreeFileInputs ==
    { [NoInputs EXCEPT !.op = "merge",
                       !.files = ZeroBased(<<MkSheet(0, IDName, k0), MkSheet(1, IDScore, k1),
                                             MkSheet(2, IDRank, k2)>>),
                       !.selected_cols_info =
                           << <<0, "ID">>, <<1, "ID">>, <<1, "Score">>, <<2, "ID">>, <<2, "Rank">> >>,
                       !.reference_column_map = << <<"ID", 0>> >>] :
        k0 \in KeySeqs, k1 \in KeySeqs, k2 \in KeySeqs }

InitThreeFiles == RunnerInit /\ UiInit /\ \E input \in ThreeFileInputs : OperationInit(input)
NextThreeFiles == Merge \/ Cancel
SpecThreeFiles == InitThreeFiles /\ [][NextThreeFiles]_vars

(***************************************************************************)
(* Two merges of the same files under the same reference map, the second   *)
(* with the selection of the first interleaved another way.                *)
(***************************************************************************)
\* the pairs of a selection that name file f, in order
PairsOf(sel, f) == SelectSeq(sel, LAMBDA p : p[1] = f)
\* the selections that hold the pairs of sel, each file's pairs in the
\* order sel has them, the files interleaved another way
Interleavings(sel) ==
    LET n == Len(sel)
        orders == {o \in [1..n -> 1..n] : \A a \in 1..n : \A b \in 1..n : a # b => o[a] # o[b]}
        arranged == {[k \in 1..n |-> sel[o[k]]] : o \in orders}
    IN {s \in arranged : s # sel /\ \A f \in {sel[k][1] : k \in 1..n} : PairsOf(s, f) = PairsOf(sel, f)}

SelectablePairs == {<<0, "ID">>, <<0, "Name">>, <<1, "ID">>, <<1, "Score">>}
\* every selection that takes some of the pairs, once each, in any order
Selections ==
    {s \in UNION {[1..n -> SelectablePairs] : n \in 0..Cardinality(SelectablePairs)} :
        \A a \in 1..Len(s) : \A b \in 1..Len(s) : a # b => s[a] # s[b]}
ReferenceMaps ==
    { <<>>, << <<"ID", 0>> >>, << <<"ID", 1>> >>, << <<"ID", 1>>, <<"Name", 0>> >>,
      << <<"Name", 0>>, <<"ID", 0>> >>, << <<"Score", 0>> >> }
InterleaveInputs ==
    { [NoInputs EXCEPT !.op = "merge",
                       !.files = ZeroBased(<<ScenarioA, DrivenB>>),
                       !.selected_cols_info = s,
                       !.reference_column_map = m] :
        s \in Selections, m \in ReferenceMaps }

\* merge_multiple_files has returned or raised KeyError and is called again
\* on the same files and reference map, with the selection interleaved
\* another way
MergeAgain ==
    /\ op = "merge" /\ pc = "done" /\ outcome \in {"returned", "KeyError"}
    /\ ~earlier_merge.made
    /\ \E sel \in Interleavings(selected_cols_info) : selected_cols_info' = sel
    /\ earlier_merge' = [made |-> TRUE, selected_cols_info |-> selected_cols_info,
                         outcome |-> outcome, row_mapping |-> row_mapping,
                         sheet |-> saved.sheet]
    /\ pc' = "open" /\ i' = 0 /\ j' = 0
    /\ cancelled' = FALSE /\ cancel_before_save' = FALSE
    /\ source_workbooks' = <<>>
    /\ column_maps' = <<>> /\ reference_keys' = <<>> /\ reference_key_to_row' = <<>>
    /\ columns_by_file' = <<>> /\ row_mapping' = <<>> /\ final_row_count' = 0
    /\ output_sheet' = <<>> /\ output_col_idx' = 0 /\ processed_cols' = 0
    /\ progress' = <<>>
    /\ outcome' = "running"
    /\ UNCHANGED <<runner, task_progress, progress_bar, file_infos, op, files, sheet_name,
                   selected_columns, reference_column_map, open_handles, column_map, saved,
                   file_info>>

InitInterleave == RunnerInit /\ UiInit /\ \E input \in InterleaveInputs : OperationInit(input)
NextInterleave == Merge \/ MergeAgain
SpecInterleave == InitInterleave /\ [][NextInterleave]_vars

(***************************************************************************)
(* C21: final_row_count.                                                   *)
(***************************************************************************)
\* the target rows of every row mapping computed so far
TargetRows(mappings) ==
    UNION {{Get(mappings, f)[n][2] : n \in 1..Len(Get(mappings, f))} : f \in DictKeys(mappings)}
\* the greatest of a value and a set of rows
Highest(value, rows) == CHOOSE h \in rows \cup {value} : \A r \in rows \cup {value} : r <= h

\* C21 as stated: no step of a merge lowers final_row_count, and the step
\* that folds a file into the row mapping leaves it at the greater of its
\* former value and the highest target row of the row mappings computed so
\* far: the index of the last output row that can receive data.
C21_FinalRowCount ==
    [][op = "merge" =>
          /\ final_row_count' >= final_row_count
          /\ row_mapping' # row_mapping =>
                final_row_count' = Highest(final_row_count, TargetRows(row_mapping'))]_vars

(***************************************************************************)
(* C22: cancellation of one operation while another runs.                  *)
(***************************************************************************)
\* the first operation is handed the token its own execute call created
OwnSignalHanded == threads'["first"].token \in {NoToken, "first"}
\* the first operation has returned and run_task decides on its callback
\* while the token of its own call is not cancelled: on_complete is posted
JudgedByOwnSignal ==
    (threads["first"].pc = "returned" /\ threads'["first"].pc = "exit" /\ ~tokens["first"])
        => after_queue' = Append(after_queue, <<"first", "on_complete", 0>>)

\* C22 as stated: with a second execute made while the first operation
\* runs, the first operation is never handed the second call's signal, and
\* a cancel() issued after the second execute does not change the terminal
\* callback of the first operation: returning with its own signal unset, it
\* is given on_complete.
C22_CancellationIsolation == [][OwnSignalHanded /\ JudgedByOwnSignal]_vars

(***************************************************************************)
(* C23: the shape of a row mapping.                                        *)
(***************************************************************************)
\* no two source rows of the mapping share a target row, and no target row
\* is the header row
InjectiveBelowHeader(mapping) ==
    /\ \A a \in 1..Len(mapping) : \A b \in 1..Len(mapping) :
          a # b => mapping[a][2] # mapping[b][2]
    /\ \A a \in 1..Len(mapping) : mapping[a][2] >= 2
\* the cell the emit loop of lines 529-537 writes next is a data cell that
\* holds nothing yet
NextCellIsFresh ==
    (pc = "emit_rows" /\ j <= Len(Get(row_mapping, EmitPair[1]))) =>
        LET target_row == Get(row_mapping, EmitPair[1])[j][2]
        IN /\ target_row >= 2
           /\ <<target_row, output_col_idx>> \notin DOMAIN output_sheet

SameKeyOnSharedRows(A, B, R) ==
    LET keysA == KeyColumn(A, R)
        keysB == KeyColumn(B, R)
        mappingA == Get(row_mapping, A)
        mappingB == Get(row_mapping, B)
    IN \A a \in 1..Len(mappingA) : \A b \in 1..Len(mappingB) :
          mappingA[a][2] = mappingB[b][2] => keysA[mappingA[a][1]] = keysB[mappingB[b][1]]

\* C24 as stated: two files that are driven by one reference name R and
\* have an R column each never place rows of different keys of R on one
\* output row, the keys that the reference file lacks included.
C24_NoKeyMixing ==
    op = "merge" =>
        \A R \in DictKeys(reference_column_map) :
            \A A \in DictKeys(row_mapping) : \A B \in DictKeys(row_mapping) :
                (A # B /\ DrivenBy(A, R) /\ DrivenBy(B, R) /\ HasColumn(A, R) /\ HasColumn(B, R))
                    => SameKeyOnSharedRows(A, B, R)

(***************************************************************************)
(* C25: the interleaving of the files in the selection.                    *)
(***************************************************************************)
\* the second of two merges has ended, neither on an I/O error
BothEnded ==
    /\ op = "merge" /\ earlier_merge.made
    /\ pc = "done" /\ outcome \in {"returned", "KeyError"}

\* C25: of two merges of the same files under the same reference map whose
\* selections hold the same pairs, each file's pairs in the same order, the
\* files interleaved differently, either both raise or both return, and
\* then with the same row mapping for every file and the same output sheet.
C25_InterleavingIrrelevant ==
    BothEnded =>
        /\ outcome = earlier_merge.outcome
        /\ outcome = "returned" =>
              /\ DictKeys(row_mapping) = DictKeys(earlier_merge.row_mapping)
              /\ \A f \in DictKeys(row_mapping) :
                    Get(row_mapping, f) = Get(earlier_merge.row_mapping, f)
              /\ saved.sheet = earlier_merge.sheet

\* two merges that returned, the second with the files in the other order
\* of first appearance, both files driven by the reference column
C25_Witness ==
    /\ BothEnded /\ outcome = "returned"
    /\ saved.sheet # <<>>
    /\ selected_cols_info[1][1] # earlier_merge.selected_cols_info[1][1]
    /\ \A f \in DOMAIN files : Has(row_mapping, f) /\ Driven(f)
    /\ \E f \in DictKeys(row_mapping) : \E n \in 1..Len(Get(row_mapping, f)) :
          Get(row_mapping, f)[n][1] # Get(row_mapping, f)[n][2]
=============================================================================
